---- MODULE Spec2Model ----
(***************************************************************************)
(* Locky: named-resource locks kept in a shared Redis store, with an       *)
(* expiration worker that reports locks whose key lapsed.                  *)
(*                                                                         *)
(* The store is one Redis server shared by every client.  Each command or  *)
(* MULTI/EXEC transaction is one atomic step of the store.  A client call  *)
(* is split where the code awaits: the synchronous part that admits the    *)
(* call and sends its commands, the store executing them, and the          *)
(* setTimeout of asyncEmit firing.                                         *)
(***************************************************************************)
EXTENDS Integers, Sequences, FiniteSets, Bags, TLC

\* ------------------------------------------------------------------ bounds
MaxCalls == 3
TTL == 2
MaxErrors == 2
MaxSegments == 2
MaxStarts == 2

\* ------------------------------------------------------------- value sets
Clients == {"c1", "c2"}
\* The JS value undefined, written as the text a template literal renders it to.
Undefined == "undefined"
\* Redis' nil reply (JS null).
Null == "(nil)"
Resources == {"r1", "r2"}
Lockers == {"a", "b"}
NoTtl == 0
Prefix == "locky:"

Falsy(x) == x = Undefined \/ x = ""

\* ------------------------------------------------------------- key codec
format(prefix, id) == prefix \o "lock:" \o id

parse(prefix, key) ==
  LET ns == prefix \o "lock:"
  IN  IF Len(key) >= Len(ns) /\ SubSeq(key, 1, Len(ns)) = ns
      THEN SubSeq(key, Len(ns) + 1, Len(key))
      ELSE key

\* The codec of lib/resource-key.js, which takes no prefix.
formatId(id) == "lock:resource:" \o id

parseKeyTwice(key) ==
  LET strip(k) == IF Len(k) >= 14 /\ SubSeq(k, 1, 14) = "lock:resource:"
                  THEN SubSeq(k, 15, Len(k)) ELSE k
  IN  strip(strip(key))

\* key.replace(/^lock:resource:/, "")
parseKey(key) ==
  IF Len(key) >= 14 /\ SubSeq(key, 1, 14) = "lock:resource:"
  THEN SubSeq(key, 15, Len(key))
  ELSE key

\* Identifiers made of up to n segments, the namespace's own among them.
Segments == {"a", ":", "lock:", "resource:", "lock:resource:", "locky:"}

RECURSIVE Ids(_)
Ids(n) ==
  IF n = 1 THEN Segments
  ELSE Ids(n - 1) \cup {s \o t : s \in Ids(n - 1), t \in Segments}

currentLocksKey == Prefix \o "current:locks"
workerKey == Prefix \o "expirate:worker"

LockKeys == {format(Prefix, r) : r \in Resources \cup {Undefined}}
Keys == LockKeys \cup {workerKey}

VARIABLES
  db,            \* store: key -> string value, Null when the key does not exist
  pttl,          \* store: key -> remaining life in ticks, -1 when it has no expiry
  currentLocks,  \* store: the members of the set at currentLocksKey
  watched,       \* store, per worker connection: the keys under WATCH
  touched,       \* store, per worker connection: a watched key changed since WATCH
  ttl,           \* per client: options.ttl (NoTtl when null)
  closing,       \* per client: this.closing
  released,      \* per client: the connections that close has released
  closeWait,     \* per client: the operations close awaits (0 is the worker's cycle)
  creating,      \* per client: the worker connections that repeated calls of
                 \* startExpirateWorker are waiting for
  loops,         \* per client: the polling loops those repeated calls have begun
  calls,         \* every lock/refresh/unlock/getLocker call issued so far
  events,        \* bag of the events emitted so far
  wpc,           \* per client: where its expiration worker stands
  wkeys,         \* per client: expireKeys' keys
  wexp,          \* per client: expireKeys' keysToExpire
  life,          \* history, per key: how the last lock on it stands
  owed,          \* history, per key: a lock on it lapsed and no expire event followed yet
  lastLock,      \* history, per key: the last call whose SET wrote it (0 when none)
  age,           \* history, per key: ticks since its last successful lock or refresh,
                 \* counted up to TTL
  leader         \* history: the client whose SET created the token stored at
                 \* workerKey, Null when there is no token

storeVars == <<db, pttl, currentLocks, watched, touched>>
workerVars == <<wpc, wkeys, wexp>>
clientVars == <<ttl, closing, released, closeWait, creating, loops>>
hist == <<life, owed, lastLock, age, leader>>
vars == <<db, pttl, currentLocks, watched, touched, ttl, closing, released,
          closeWait, creating, loops, calls, events,
          wpc, wkeys, wexp, life, owed, lastLock, age, leader>>

\* --------------------------------------------------------- store commands
\* PTTL key
PTTL(k) == IF db[k] = Null THEN -2 ELSE pttl[k]

\* The connections whose WATCH is invalidated by a change of one of ks.
Touch(ks) == [c \in Clients |-> touched[c] \/ (watched[c] \cap ks # {})]

SetReplyIgnoresForce(old, force) == IF old = Null THEN "OK" ELSE Null

SetReplyAlwaysOk(old, force) == "OK"

\* Reply of SET key value [NX].
SetReply(old, force) == IF force \/ old = Null THEN "OK" ELSE Null

SetValueOverwrites(old, locker, force) == locker

SetValueKeepsOld(old, locker, force) == IF old = Null THEN locker ELSE old

\* Value of the key after SET key value [NX].
SetValue(old, locker, force) == IF force \/ old = Null THEN locker ELSE old

LockExpiryWhenSet(old, oldPttl, force, t) ==
  IF force \/ old = Null THEN (IF t # NoTtl THEN t ELSE -1) ELSE oldPttl

LockExpiryKeepsOld(old, oldPttl, force, t) == IF t # NoTtl THEN t ELSE oldPttl

\* Remaining life of the key after SET key value [NX] followed, when a ttl is
\* configured, by PEXPIRE key ttl.  A SET that writes drops the old expiry.
LockExpiry(old, oldPttl, force, t) ==
  IF t # NoTtl THEN t
  ELSE IF force \/ old = Null THEN -1 ELSE oldPttl

PExpireReplyAlwaysOne(old) == 1

\* Reply of PEXPIRE key ttl.
PExpireReply(old) == IF old = Null THEN 0 ELSE 1

DelReplyAlwaysOne(old) == 1

\* Reply of DEL key.
DelReply(old) == IF old = Null THEN 0 ELSE 1

SRemNothing(set, ks) == set

\* Members of the registry after SREM currentLocksKey keys.
SRem(set, ks) == set \ ks

SAddToggles(set, k) == IF k \in set THEN set \ {k} ELSE set \cup {k}

\* Members of the registry after SADD currentLocksKey key.
SAdd(set, k) == set \cup {k}

\* The part of the store that holds the locks: locker values, expiries and
\* the registry.
Store == [db |-> db, pttl |-> pttl, currentLocks |-> currentLocks]

\* The store after the lock transaction: SADD, SET [NX], PEXPIRE when t is
\* a ttl.
lockTrx(st, key, locker, force, t) ==
  [db |-> [st.db EXCEPT ![key] = SetValue(st.db[key], locker, force)],
   pttl |-> [st.pttl EXCEPT ![key] = LockExpiry(st.db[key], st.pttl[key], force, t)],
   currentLocks |-> SAdd(st.currentLocks, key)]

\* The store after refresh's PEXPIRE key t.
pExpire(st, key, t) ==
  [db |-> st.db,
   pttl |-> [st.pttl EXCEPT ![key] = IF PExpireReply(st.db[key]) = 1 THEN t ELSE @],
   currentLocks |-> st.currentLocks]

unlockTrxClearsRegistry(st, key) ==
  [db |-> [st.db EXCEPT ![key] = Null],
   pttl |-> [st.pttl EXCEPT ![key] = -1],
   currentLocks |-> {}]

\* The store after the unlock transaction: SREM, DEL.
unlockTrx(st, key) ==
  [db |-> [st.db EXCEPT ![key] = Null],
   pttl |-> [st.pttl EXCEPT ![key] = -1],
   currentLocks |-> SRem(st.currentLocks, {key})]

\* ------------------------------------------------------------ the clients
Call(c, op, r, l, f, pc, res) ==
  [client |-> c, op |-> op, resource |-> r, locker |-> l, force |-> f,
   pc |-> pc, result |-> res]

CallIds == 1..Len(calls)
KeyOf(i) == format(Prefix, calls[i].resource)

\* The worker's cycle is running: run's operation is admitted and not settled.
cycleRunning(c) ==
  wpc[c] \in {"set", "smembers", "pttl", "watch", "exec", "emit", "del"}

\* this.pendingOperations of a client: its calls not yet settled, and 0 for
\* the cycle of its worker.
pendingOperations(c) ==
  {i \in CallIds : calls[i].client = c /\ calls[i].pc \in {"sent", "emit"}}
    \cup (IF cycleRunning(c) THEN {0} ELSE {})

\* One connection executes its commands in the order they were sent.
Oldest(i) ==
  \A j \in 1..(i - 1) : ~(calls[j].client = calls[i].client /\ calls[j].pc = "sent")

Init ==
  /\ db = [k \in Keys |-> Null]
  /\ pttl = [k \in Keys |-> -1]
  /\ currentLocks = {}
  /\ watched = [c \in Clients |-> {}]
  /\ touched = [c \in Clients |-> FALSE]
  /\ ttl \in [Clients -> {NoTtl, TTL}]
  /\ closing = [c \in Clients |-> FALSE]
  /\ released = [c \in Clients |-> {}]
  /\ closeWait = [c \in Clients |-> {}]
  /\ creating = [c \in Clients |-> 0]
  /\ loops = [c \in Clients |-> 0]
  /\ calls = <<>>
  /\ events = EmptyBag
  /\ wpc = [c \in Clients |-> "off"]
  /\ wkeys = [c \in Clients |-> {}]
  /\ wexp = [c \in Clients |-> {}]
  /\ life = [k \in Keys |-> "free"]
  /\ owed = [k \in Keys |-> FALSE]
  /\ lastLock = [k \in Keys |-> 0]
  /\ age = [k \in Keys |-> TTL]
  /\ leader = Null

runOperationAdmits(c, call) == call

\* runOperation: a call issued while closing is rejected before it runs.
runOperation(c, call) ==
  IF closing[c] THEN [call EXCEPT !.pc = "rejected"] ELSE call

\* lockPromise up to its first await: the no-op returns, or the transaction
\* is sent.
lockPromise(c, r, l, f) ==
  /\ Len(calls) < MaxCalls
  /\ LET key == format(Prefix, r)
         noop == Falsy(key) \/ Falsy(l)
         call == Call(c, "lock", r, l, f, IF noop THEN "done" ELSE "sent", noop)
     IN  calls' = Append(calls, runOperation(c, call))
  /\ UNCHANGED <<storeVars, clientVars, events, workerVars, hist>>

lockExecEmitsAlways(i) ==
  /\ i \in CallIds
  /\ calls[i].op = "lock" /\ calls[i].pc = "sent"
  /\ Oldest(i)
  /\ LET c == calls[i].client
         key == KeyOf(i)
         old == db[key]
         setResult == SetReply(old, calls[i].force)
         success == setResult # Null
         post == lockTrx(Store, key, calls[i].locker, calls[i].force, ttl[c])
     IN  /\ currentLocks' = post.currentLocks
         /\ db' = post.db
         /\ pttl' = post.pttl
         /\ touched' = IF success \/ ttl[c] # NoTtl THEN Touch({key}) ELSE touched
         /\ calls' = [calls EXCEPT ![i].pc = "emit",
                                   ![i].result = success]
         /\ life' = IF success THEN [life EXCEPT ![key] = "held"] ELSE life
         /\ lastLock' = IF success THEN [lastLock EXCEPT ![key] = i] ELSE lastLock
         /\ age' = IF success THEN [age EXCEPT ![key] = 0] ELSE age
  /\ UNCHANGED <<watched, clientVars, events, workerVars, owed, leader>>

\* The store executes the lock transaction (SADD, SET [NX], PEXPIRE) and the
\* call continues to asyncEmit or returns false.
lockExec(i) ==
  /\ i \in CallIds
  /\ calls[i].op = "lock" /\ calls[i].pc = "sent"
  /\ Oldest(i)
  /\ LET c == calls[i].client
         key == KeyOf(i)
         old == db[key]
         setResult == SetReply(old, calls[i].force)
         success == setResult # Null
         post == lockTrx(Store, key, calls[i].locker, calls[i].force, ttl[c])
     IN  /\ currentLocks' = post.currentLocks
         /\ db' = post.db
         /\ pttl' = post.pttl
         /\ touched' = IF success \/ ttl[c] # NoTtl THEN Touch({key}) ELSE touched
         /\ calls' = [calls EXCEPT ![i].pc = IF success THEN "emit" ELSE "done",
                                   ![i].result = success]
         /\ life' = IF success THEN [life EXCEPT ![key] = "held"] ELSE life
         /\ lastLock' = IF success THEN [lastLock EXCEPT ![key] = i] ELSE lastLock
         /\ age' = IF success THEN [age EXCEPT ![key] = 0] ELSE age
  /\ UNCHANGED <<watched, clientVars, events, workerVars, owed, leader>>

\* asyncEmit's timer fires: the event is emitted and the call returns.
asyncEmit(i) ==
  /\ i \in CallIds
  /\ calls[i].pc = "emit"
  /\ events' = events (+) SetToBag({
       IF calls[i].op = "lock"
       THEN <<"lock", calls[i].resource, calls[i].locker>>
       ELSE <<"unlock", calls[i].resource>>})
  /\ calls' = [calls EXCEPT ![i].pc = "done"]
  /\ UNCHANGED <<storeVars, clientVars, workerVars, hist>>

\* refreshPromise up to its first await: true at once when no ttl is
\* configured, otherwise PEXPIRE is sent.
refreshPromise(c, r) ==
  /\ Len(calls) < MaxCalls
  /\ LET noop == ttl[c] = NoTtl
         call == Call(c, "refresh", r, Undefined, FALSE,
                      IF noop THEN "done" ELSE "sent", noop)
     IN  calls' = Append(calls, runOperation(c, call))
  /\ UNCHANGED <<storeVars, clientVars, events, workerVars, hist>>

refreshExecReAdds(i) ==
  /\ i \in CallIds
  /\ calls[i].op = "refresh" /\ calls[i].pc = "sent"
  /\ Oldest(i)
  /\ LET c == calls[i].client
         key == KeyOf(i)
         expire == PExpireReply(db[key])
     IN  /\ pttl' = pExpire(Store, key, ttl[c]).pttl
         /\ touched' = IF expire = 1 THEN Touch({key}) ELSE touched
         /\ calls' = [calls EXCEPT ![i].pc = "done", ![i].result = (expire = 1)]
         /\ currentLocks' = SAdd(currentLocks, key)
         /\ age' = IF expire = 1 THEN [age EXCEPT ![key] = 0] ELSE age
  /\ UNCHANGED <<db, watched, clientVars, events, workerVars,
                 life, owed, lastLock, leader>>

\* The store executes PEXPIRE key ttl and the call returns expire === 1.
refreshExec(i) ==
  /\ i \in CallIds
  /\ calls[i].op = "refresh" /\ calls[i].pc = "sent"
  /\ Oldest(i)
  /\ LET c == calls[i].client
         key == KeyOf(i)
         expire == PExpireReply(db[key])
     IN  /\ pttl' = pExpire(Store, key, ttl[c]).pttl
         /\ touched' = IF expire = 1 THEN Touch({key}) ELSE touched
         /\ calls' = [calls EXCEPT ![i].pc = "done", ![i].result = (expire = 1)]
         /\ age' = IF expire = 1 THEN [age EXCEPT ![key] = 0] ELSE age
  /\ UNCHANGED <<db, currentLocks, watched, clientVars, events, workerVars,
                 life, owed, lastLock, leader>>

\* unlockPromise up to its first await: the transaction is sent.
unlockPromise(c, r) ==
  /\ Len(calls) < MaxCalls
  /\ calls' = Append(calls,
       runOperation(c, Call(c, "unlock", r, Undefined, FALSE, "sent", FALSE)))
  /\ UNCHANGED <<storeVars, clientVars, events, workerVars, hist>>

\* The store executes the unlock transaction (SREM, DEL) and the call
\* continues to asyncEmit or returns false.
unlockExec(i) ==
  /\ i \in CallIds
  /\ calls[i].op = "unlock" /\ calls[i].pc = "sent"
  /\ Oldest(i)
  /\ LET key == KeyOf(i)
         res == DelReply(db[key])
         success == res # 0
         post == unlockTrx(Store, key)
     IN  /\ currentLocks' = post.currentLocks
         /\ db' = post.db
         /\ pttl' = post.pttl
         /\ touched' = IF success THEN Touch({key}) ELSE touched
         /\ calls' = [calls EXCEPT ![i].pc = IF success THEN "emit" ELSE "done",
                                   ![i].result = success]
         /\ life' = IF success THEN [life EXCEPT ![key] = "unlocked"] ELSE life
  /\ UNCHANGED <<watched, clientVars, events, workerVars, owed, lastLock, age, leader>>

\* getLockerPromise up to its first await: GET is sent.
getLockerPromise(c, r) ==
  /\ Len(calls) < MaxCalls
  /\ calls' = Append(calls,
       runOperation(c, Call(c, "getLocker", r, Undefined, FALSE, "sent", Null)))
  /\ UNCHANGED <<storeVars, clientVars, events, workerVars, hist>>

\* The store executes GET key and the call returns its reply.
getLockerExec(i) ==
  /\ i \in CallIds
  /\ calls[i].op = "getLocker" /\ calls[i].pc = "sent"
  /\ Oldest(i)
  /\ calls' = [calls EXCEPT ![i].pc = "done", ![i].result = db[KeyOf(i)]]
  /\ UNCHANGED <<storeVars, clientVars, events, workerVars, hist>>

\* ------------------------------------------------------------------- time
\* One tick of the store's clock: every expiry comes one tick closer and a
\* key whose life reaches zero is deleted by the store.
Lapsing == {k \in Keys : db[k] # Null /\ pttl[k] = 1}

Tick ==
  /\ \E k \in Keys : db[k] # Null /\ pttl[k] > 0
  /\ db' = [k \in Keys |-> IF k \in Lapsing THEN Null ELSE db[k]]
  /\ pttl' = [k \in Keys |->
       IF k \in Lapsing \/ pttl[k] <= 0 THEN -1 ELSE pttl[k] - 1]
  /\ touched' = Touch(Lapsing)
  /\ life' = [k \in Keys |-> IF k \in Lapsing \cap LockKeys THEN "lapsed" ELSE life[k]]
  /\ owed' = [k \in Keys |-> owed[k] \/ k \in Lapsing \cap LockKeys]
  /\ age' = [k \in Keys |-> IF age[k] < TTL THEN age[k] + 1 ELSE TTL]
  /\ leader' = IF workerKey \in Lapsing THEN Null ELSE leader
  /\ UNCHANGED <<currentLocks, watched, clientVars, calls, events, workerVars, lastLock>>

\* --------------------------------------------------- the expiration worker
startExpirateWorkerUnchecked(c) ==
  /\ wpc[c] = "off"
  /\ wpc' = [wpc EXCEPT ![c] = "connecting"]
  /\ UNCHANGED <<storeVars, clientVars, calls, events, wkeys, wexp, hist>>

\* startExpirateWorker up to its await: refused with an error without a ttl;
\* otherwise the worker's connection is being created, this.expirationWorker
\* not yet assigned.
startExpirateWorker(c) ==
  /\ wpc[c] = "off"
  /\ wpc' = [wpc EXCEPT ![c] = IF ttl[c] = NoTtl THEN "refused" ELSE "connecting"]
  /\ UNCHANGED <<storeVars, clientVars, calls, events, wkeys, wexp, hist>>

\* The worker connections createRedisClient has been asked for by the calls
\* of startExpirateWorker of c, and the polling loops those calls have begun.
\* wpc follows the loop of the call that came first.
workerConnections(c) ==
  (IF wpc[c] \in {"off", "refused"} THEN 0 ELSE 1) + creating[c] + loops[c]

pollingLoops(c) ==
  (IF wpc[c] \in {"off", "refused", "connecting"} THEN 0 ELSE 1) + loops[c]

\* startExpirateWorker called again while an earlier call awaits its
\* connection: this.expirationWorker is not assigned yet, so the call goes
\* past the test of it and asks for a connection of its own.
startExpirateWorkerAgain(c) ==
  /\ ttl[c] # NoTtl
  /\ wpc[c] = "connecting" /\ loops[c] = 0
  /\ workerConnections(c) < MaxStarts
  /\ creating' = [creating EXCEPT ![c] = @ + 1]
  /\ UNCHANGED <<storeVars, ttl, closing, released, closeWait, loops, calls, events,
                 workerVars, hist>>

\* The connection of a repeated call is there: this.expirationWorker is
\* assigned and run is called, which begins one more polling loop.
connectedAgain(c) ==
  /\ creating[c] > 0
  /\ creating' = [creating EXCEPT ![c] = @ - 1]
  /\ loops' = [loops EXCEPT ![c] = @ + 1]
  /\ UNCHANGED <<storeVars, ttl, closing, released, closeWait, calls, events,
                 workerVars, hist>>

ClosingError == <<"error", "Locky is closing">>

\* run up to its first await: runOperation admits the cycle and SET is sent,
\* or it refuses the cycle while closing, the error is emitted and the next
\* timeout is set.
run(c) ==
  /\ IF closing[c]
     THEN /\ CopiesIn(ClosingError, events) < MaxErrors
          /\ events' = events (+) SetToBag({ClosingError})
          /\ wpc' = [wpc EXCEPT ![c] = "timer"]
     ELSE /\ wpc' = [wpc EXCEPT ![c] = "set"]
          /\ UNCHANGED events
  /\ UNCHANGED <<storeVars, clientVars, calls, wkeys, wexp, hist>>

\* startExpirateWorker after its await: the connection is there,
\* this.expirationWorker is assigned and run is called.
connected(c) ==
  /\ wpc[c] = "connecting"
  /\ run(c)

\* The timeout set by run fires and calls run.
timeout(c) ==
  /\ wpc[c] = "timer"
  /\ run(c)

\* The store executes SET workerKey "OK" NX PX ttl: the winner goes on to
\* expireKeys, for the loser the cycle is over and the next timeout is set.
runSet(c) ==
  /\ wpc[c] = "set"
  /\ LET locked == SetReply(db[workerKey], FALSE)
     IN  IF locked # Null
         THEN /\ db' = [db EXCEPT ![workerKey] = "OK"]
              /\ pttl' = [pttl EXCEPT ![workerKey] = ttl[c]]
              /\ wpc' = [wpc EXCEPT ![c] = "smembers"]
              /\ leader' = c
         ELSE /\ wpc' = [wpc EXCEPT ![c] = "timer"]
              /\ UNCHANGED <<db, pttl, leader>>
  /\ UNCHANGED <<currentLocks, watched, touched, clientVars, calls, events,
                 wkeys, wexp, life, owed, lastLock, age>>

\* expireKeys: SMEMBERS currentLocksKey.
expireKeysMembers(c) ==
  /\ wpc[c] = "smembers"
  /\ wkeys' = [wkeys EXCEPT ![c] = currentLocks]
  /\ wpc' = [wpc EXCEPT ![c] = IF currentLocks = {} THEN "del" ELSE "pttl"]
  /\ UNCHANGED <<storeVars, clientVars, calls, events, wexp, hist>>

KeysToExpireAll(keys) == keys

\* keysToExpire: the keys whose PTTL reply is -2.
KeysToExpire(keys) == {k \in keys : PTTL(k) = -2}

\* expireKeys: the batch of PTTL commands and the filter on their replies.
expireKeysTtls(c) ==
  /\ wpc[c] = "pttl"
  /\ wexp' = [wexp EXCEPT ![c] = KeysToExpire(wkeys[c])]
  /\ wpc' = [wpc EXCEPT ![c] = IF KeysToExpire(wkeys[c]) = {} THEN "del" ELSE "watch"]
  /\ UNCHANGED <<storeVars, clientVars, calls, events, wkeys, hist>>

\* expireKeys: WATCH keysToExpire.
expireKeysWatch(c) ==
  /\ wpc[c] = "watch"
  /\ watched' = [watched EXCEPT ![c] = wexp[c]]
  /\ touched' = [touched EXCEPT ![c] = FALSE]
  /\ wpc' = [wpc EXCEPT ![c] = "exec"]
  /\ UNCHANGED <<db, pttl, currentLocks, clientVars, calls, events, wkeys, wexp, hist>>

\* expireKeys: EXEC of the SREM transaction; a touched watch aborts it
\* (results === null) and the sweep returns without an event.
expireKeysExec(c) ==
  /\ wpc[c] = "exec"
  /\ currentLocks' = IF touched[c] THEN currentLocks ELSE SRem(currentLocks, wexp[c])
  /\ wpc' = [wpc EXCEPT ![c] = IF touched[c] THEN "del" ELSE "emit"]
  /\ watched' = [watched EXCEPT ![c] = {}]
  /\ touched' = [touched EXCEPT ![c] = FALSE]
  /\ UNCHANGED <<db, pttl, clientVars, calls, events, wkeys, wexp, hist>>

\* The events of one sweep: expire(parse(key)) for every key of keysToExpire.
ExpireEvents(ks) == SetToBag({<<"expire", parse(Prefix, k)>> : k \in ks})

\* expireKeys: the asyncEmit timers of the sweep fire.
expireKeysEmit(c) ==
  /\ wpc[c] = "emit"
  /\ events' = events (+) ExpireEvents(wexp[c])
  /\ owed' = [k \in Keys |-> owed[k] /\ k \notin wexp[c]]
  /\ wpc' = [wpc EXCEPT ![c] = "del"]
  /\ UNCHANGED <<storeVars, clientVars, calls, wkeys, wexp, life, lastLock, age, leader>>

runDelKeepsToken(c) ==
  /\ wpc[c] = "del"
  /\ wpc' = [wpc EXCEPT ![c] = "timer"]
  /\ wkeys' = [wkeys EXCEPT ![c] = {}]
  /\ wexp' = [wexp EXCEPT ![c] = {}]
  /\ UNCHANGED <<storeVars, clientVars, calls, events, hist>>

\* run: DEL workerKey after expireKeys, then the next cycle is scheduled.
runDel(c) ==
  /\ wpc[c] = "del"
  /\ db' = [db EXCEPT ![workerKey] = Null]
  /\ pttl' = [pttl EXCEPT ![workerKey] = -1]
  /\ touched' = IF DelReply(db[workerKey]) # 0 THEN Touch({workerKey}) ELSE touched
  /\ wpc' = [wpc EXCEPT ![c] = "timer"]
  /\ wkeys' = [wkeys EXCEPT ![c] = {}]
  /\ wexp' = [wexp EXCEPT ![c] = {}]
  /\ leader' = Null
  /\ UNCHANGED <<currentLocks, watched, clientVars, calls, events,
                 life, owed, lastLock, age>>

StoreError == <<"error", "store">>

runCatchHalts(c) ==
  /\ cycleRunning(c)
  /\ CopiesIn(StoreError, events) < MaxErrors
  /\ events' = events (+) SetToBag({StoreError})
  /\ wpc' = [wpc EXCEPT ![c] = "stopped"]
  /\ wkeys' = [wkeys EXCEPT ![c] = {}]
  /\ wexp' = [wexp EXCEPT ![c] = {}]
  /\ UNCHANGED <<storeVars, clientVars, calls, hist>>

\* run's catch: a command of the cycle (SET, SMEMBERS, PTTL, WATCH, EXEC or
\* DEL) is rejected by the store.  The rejection leaves the operation at
\* once, the error is emitted and the next timeout is set.
runCatch(c) ==
  /\ cycleRunning(c)
  /\ CopiesIn(StoreError, events) < MaxErrors
  /\ events' = events (+) SetToBag({StoreError})
  /\ wpc' = [wpc EXCEPT ![c] = "timer"]
  /\ wkeys' = [wkeys EXCEPT ![c] = {}]
  /\ wexp' = [wexp EXCEPT ![c] = {}]
  /\ UNCHANGED <<storeVars, clientVars, calls, hist>>

\* The process of client c ends while its worker holds the token it won:
\* nothing of the cycle follows, the DEL included, and the store drops the
\* connection with its WATCH.
crash(c) ==
  /\ cycleRunning(c) /\ wpc[c] # "set"
  /\ leader = c
  /\ wpc' = [wpc EXCEPT ![c] = "crashed"]
  /\ wkeys' = [wkeys EXCEPT ![c] = {}]
  /\ wexp' = [wexp EXCEPT ![c] = {}]
  /\ watched' = [watched EXCEPT ![c] = {}]
  /\ touched' = [touched EXCEPT ![c] = FALSE]
  /\ UNCHANGED <<db, pttl, currentLocks, clientVars, calls, events, hist>>

\* ------------------------------------------------------------------ close
\* clearTimeout(this.expirationWorker.timeout): a pending timeout is dropped.
clearTimeout(w) == IF w = "timer" THEN "stopped" ELSE w

\* closePromise up to its await: the flag is set, the pending timeout is
\* cleared and Promise.allSettled takes the operations pending now.
closePromise(c) ==
  /\ ~closing[c]
  /\ closing' = [closing EXCEPT ![c] = TRUE]
  /\ wpc' = [wpc EXCEPT ![c] = clearTimeout(@)]
  /\ closeWait' = [closeWait EXCEPT ![c] = pendingOperations(c)]
  /\ UNCHANGED <<storeVars, ttl, released, creating, loops, calls, events,
                 wkeys, wexp, hist>>

SettledAlways(c, p) == TRUE

\* The promise of pending operation p of client c has settled.
Settled(c, p) == p \notin pendingOperations(c)

\* this.expirationWorker is assigned.
expirationWorker(c) == wpc[c] \notin {"off", "refused", "connecting"}

\* closePromise after its await: every awaited operation has settled, the
\* timeout is cleared again, and the client's connection and the one of the
\* worker, when there is a worker, are closed.
closeConnections(c) ==
  /\ closing[c]
  /\ released[c] = {}
  /\ \A p \in closeWait[c] : Settled(c, p)
  /\ wpc' = [wpc EXCEPT ![c] = clearTimeout(@)]
  /\ released' = [released EXCEPT ![c] =
       {"redis"} \cup (IF expirationWorker(c) THEN {"expirationWorker.redis"} ELSE {})]
  /\ UNCHANGED <<storeVars, ttl, closing, closeWait, creating, loops, calls, events,
                 wkeys, wexp, hist>>

\* --------------------------------------------------------------- the codec
\* A resource identifier is formatted to its key, by the codec with prefix
\* or by the one without.
formatStep(id, op) ==
  /\ calls = <<>>
  /\ calls' = <<Call("c1", op, id, Undefined, FALSE, "formatted",
                     IF op = "format" THEN format(Prefix, id) ELSE formatId(id))>>
  /\ UNCHANGED <<storeVars, clientVars, events, workerVars, hist>>

\* The key is parsed back to a resource identifier.
parseStep(i) ==
  /\ i \in CallIds
  /\ calls[i].pc = "formatted"
  /\ calls' = [calls EXCEPT
       ![i].pc = "parsed",
       ![i].result = IF calls[i].op = "format" THEN parse(Prefix, @) ELSE parseKey(@)]
  /\ UNCHANGED <<storeVars, clientVars, events, workerVars, hist>>

\* ----------------------------------------------------------- specifications
Mixed == [c \in Clients |-> IF c = "c1" THEN TTL ELSE NoTtl]

\* Each client locks under its own locker identifier.
LockerOf(c) == IF c = "c1" THEN "a" ELSE "b"

Next ==
  \/ \E c \in Clients, f \in BOOLEAN : lockPromise(c, "r1", LockerOf(c), f)
  \/ \E c \in Clients : refreshPromise(c, "r1")
  \/ \E c \in Clients : unlockPromise(c, "r1")
  \/ \E c \in Clients : getLockerPromise(c, "r1")
  \/ \E i \in 1..MaxCalls : lockExec(i)
  \/ \E i \in 1..MaxCalls : refreshExec(i)
  \/ \E i \in 1..MaxCalls : unlockExec(i)
  \/ \E i \in 1..MaxCalls : getLockerExec(i)
  \/ \E i \in 1..MaxCalls : asyncEmit(i)
  \/ Tick

InitMixed == Init /\ ttl = Mixed

Spec == InitMixed /\ [][Next]_vars

\* A worker with the clients' calls on one resource.
Worker(c) ==
  \/ startExpirateWorker(c)
  \/ connected(c)
  \/ timeout(c)
  \/ runSet(c)
  \/ expireKeysMembers(c)
  \/ expireKeysTtls(c)
  \/ expireKeysWatch(c)
  \/ expireKeysExec(c)
  \/ expireKeysEmit(c)
  \/ runDel(c)

NextWorker ==
  \/ \E c \in Clients : lockPromise(c, "r1", "a", FALSE)
  \/ \E c \in Clients : unlockPromise(c, "r1")
  \/ \E i \in 1..MaxCalls : lockExec(i)
  \/ \E i \in 1..MaxCalls : unlockExec(i)
  \/ \E i \in 1..MaxCalls : asyncEmit(i)
  \/ Tick
  \/ Worker("c1")

AllTtl == [c \in Clients |-> TTL]

InitTtl == Init /\ ttl = AllTtl

SpecWorker == InitTtl /\ [][NextWorker]_vars
\* Clients racing to lock one absent resource, none of them forcing.
NextRace ==
  \/ \E c \in Clients, l \in Lockers : lockPromise(c, "r1", l, FALSE)
  \/ \E i \in 1..MaxCalls : lockExec(i)
  \/ \E i \in 1..MaxCalls : asyncEmit(i)

SpecRace == InitMixed /\ [][NextRace]_vars

\* lock called with and without its resource and its locker.
NextArgs ==
  \/ \E c \in Clients, r \in {"r1", Undefined}, l \in {"a", Undefined}, f \in BOOLEAN :
       lockPromise(c, r, l, f)
  \/ \E i \in 1..MaxCalls : lockExec(i)
  \/ \E i \in 1..MaxCalls : asyncEmit(i)

SpecArgs == InitMixed /\ [][NextArgs]_vars

\* One worker and locks that nobody refreshes or unlocks.  The timers of
\* Node's event loop fire, the store answers and its clock advances.
NextLive ==
  \/ lockPromise("c2", "r1", "a", FALSE)
  \/ \E i \in 1..MaxCalls : lockExec(i)
  \/ \E i \in 1..MaxCalls : asyncEmit(i)
  \/ Tick
  \/ Worker("c1")

SpecLive ==
  /\ InitTtl
  /\ [][NextLive]_vars
  /\ WF_vars(Tick)
  /\ WF_vars(Worker("c1"))
  /\ \A i \in 1..MaxCalls : WF_vars(lockExec(i)) /\ WF_vars(asyncEmit(i))

\* Every client runs a worker on the one store, and a single lock is taken
\* and left to lapse.
lockOnce ==
  /\ calls = <<>>
  /\ lockPromise("c1", "r1", "a", FALSE)

NextCluster ==
  \/ lockOnce
  \/ \E i \in 1..MaxCalls : lockExec(i)
  \/ \E i \in 1..MaxCalls : asyncEmit(i)
  \/ Tick
  \/ \E c \in Clients : Worker(c)

SpecCluster == InitTtl /\ [][NextCluster]_vars

\* One lock that its holder refreshes or unlocks while another client's
\* worker sweeps.
NextRefresh ==
  \/ lockOnce
  \/ refreshPromise("c1", "r1")
  \/ unlockPromise("c1", "r1")
  \/ \E i \in 1..MaxCalls : lockExec(i)
  \/ \E i \in 1..MaxCalls : refreshExec(i)
  \/ \E i \in 1..MaxCalls : unlockExec(i)
  \/ \E i \in 1..MaxCalls : asyncEmit(i)
  \/ Tick
  \/ Worker("c2")

SpecRefresh == InitTtl /\ [][NextRefresh]_vars

\* Locks and refreshes on two resources.
NextFrame ==
  \/ \E c \in Clients, r \in Resources : lockPromise(c, r, LockerOf(c), FALSE)
  \/ \E c \in Clients, r \in Resources : refreshPromise(c, r)
  \/ \E i \in 1..MaxCalls : lockExec(i)
  \/ \E i \in 1..MaxCalls : refreshExec(i)
  \/ \E i \in 1..MaxCalls : asyncEmit(i)
  \/ Tick

SpecFrame == InitMixed /\ [][NextFrame]_vars

\* A client issues calls and closes.
NextClosing ==
  \/ \E f \in BOOLEAN : lockPromise("c1", "r1", "a", f)
  \/ refreshPromise("c1", "r1")
  \/ unlockPromise("c1", "r1")
  \/ getLockerPromise("c1", "r1")
  \/ \E i \in 1..MaxCalls : lockExec(i)
  \/ \E i \in 1..MaxCalls : refreshExec(i)
  \/ \E i \in 1..MaxCalls : unlockExec(i)
  \/ \E i \in 1..MaxCalls : getLockerExec(i)
  \/ \E i \in 1..MaxCalls : asyncEmit(i)
  \/ closePromise("c1")
  \/ closeConnections("c1")

SpecClosing == InitTtl /\ [][NextClosing]_vars

\* A client that locks, runs a worker and closes.
NextShutdown ==
  \/ lockPromise("c1", "r1", "a", FALSE)
  \/ \E i \in 1..MaxCalls : lockExec(i)
  \/ \E i \in 1..MaxCalls : asyncEmit(i)
  \/ Tick
  \/ Worker("c1")
  \/ closePromise("c1")
  \/ closeConnections("c1")

SpecShutdown == InitTtl /\ [][NextShutdown]_vars

\* A client with a ttl and one without: each locks its own resource and
\* calls startExpirateWorker.
NextStart ==
  \/ lockOnce
  \/ lockPromise("c2", "r2", "b", FALSE)
  \/ \E i \in 1..MaxCalls : lockExec(i)
  \/ \E i \in 1..MaxCalls : asyncEmit(i)
  \/ Tick
  \/ \E c \in Clients : Worker(c)

SpecStart == InitMixed /\ [][NextStart]_vars

\* Identifiers through the codec and back.
NextCodec ==
  \/ \E id \in Ids(MaxSegments), op \in {"format", "formatId"} : formatStep(id, op)
  \/ \E i \in 1..MaxCalls : parseStep(i)

SpecCodec == InitTtl /\ [][NextCodec]_vars

\* One lock, which its holder may unlock at any time, and a worker.  The
\* timers of Node's event loop fire, the store answers and its clock advances.
NextReport ==
  \/ lockOnce
  \/ unlockPromise("c1", "r1")
  \/ \E i \in 1..MaxCalls : lockExec(i)
  \/ \E i \in 1..MaxCalls : unlockExec(i)
  \/ \E i \in 1..MaxCalls : asyncEmit(i)
  \/ Tick
  \/ Worker("c2")

SpecReport ==
  /\ InitTtl
  /\ [][NextReport]_vars
  /\ WF_vars(Tick)
  /\ WF_vars(Worker("c2"))
  /\ \A i \in 1..MaxCalls :
       WF_vars(lockExec(i)) /\ WF_vars(unlockExec(i)) /\ WF_vars(asyncEmit(i))

\* Every operation of a client on one resource, beside another client's
\* worker.
NextRegistry ==
  \/ lockPromise("c1", "r1", "a", FALSE)
  \/ refreshPromise("c1", "r1")
  \/ unlockPromise("c1", "r1")
  \/ getLockerPromise("c1", "r1")
  \/ \E i \in 1..MaxCalls : lockExec(i)
  \/ \E i \in 1..MaxCalls : refreshExec(i)
  \/ \E i \in 1..MaxCalls : unlockExec(i)
  \/ \E i \in 1..MaxCalls : getLockerExec(i)
  \/ \E i \in 1..MaxCalls : asyncEmit(i)
  \/ Tick
  \/ Worker("c2")

SpecRegistry == InitTtl /\ [][NextRegistry]_vars

\* A worker whose store may reject any command of a cycle, and one lock left
\* to lapse.
NextErrors ==
  \/ lockOnce
  \/ \E i \in 1..MaxCalls : lockExec(i)
  \/ \E i \in 1..MaxCalls : asyncEmit(i)
  \/ Tick
  \/ Worker("c1")
  \/ runCatch("c1")

SpecErrors == InitTtl /\ [][NextErrors]_vars

\* The same, with the timers of Node's event loop firing, the store
\* answering and its clock advancing.
SpecLoop ==
  /\ InitTtl
  /\ [][NextErrors]_vars
  /\ WF_vars(Tick)
  /\ WF_vars(Worker("c1"))
  /\ \A i \in 1..MaxCalls : WF_vars(lockExec(i)) /\ WF_vars(asyncEmit(i))

\* Two workers on one store, one of which may crash while it holds the
\* token, and a single lock left to lapse.  The timers of Node's event loop
\* fire, the store answers and its clock advances.
NextCrash ==
  \/ lockOnce
  \/ \E i \in 1..MaxCalls : lockExec(i)
  \/ \E i \in 1..MaxCalls : asyncEmit(i)
  \/ Tick
  \/ \E c \in Clients : Worker(c)
  \/ crash("c1")

SpecCrash ==
  /\ InitTtl
  /\ [][NextCrash]_vars
  /\ WF_vars(Tick)
  /\ \A c \in Clients : WF_vars(Worker(c))
  /\ \A i \in 1..MaxCalls : WF_vars(lockExec(i)) /\ WF_vars(asyncEmit(i))

\* A client that calls startExpirateWorker more than once, and one lock
\* left to lapse.
NextDouble ==
  \/ lockOnce
  \/ \E i \in 1..MaxCalls : lockExec(i)
  \/ \E i \in 1..MaxCalls : asyncEmit(i)
  \/ Tick
  \/ Worker("c1")
  \/ startExpirateWorkerAgain("c1")
  \/ connectedAgain("c1")

SpecDouble == InitTtl /\ [][NextDouble]_vars

\* Locks, refreshes and unlocks on two resources.
NextApart ==
  \/ \E c \in Clients, r \in Resources : lockPromise(c, r, LockerOf(c), FALSE)
  \/ \E r \in Resources : refreshPromise("c1", r)
  \/ \E r \in Resources : unlockPromise("c1", r)
  \/ \E i \in 1..MaxCalls : lockExec(i)
  \/ \E i \in 1..MaxCalls : refreshExec(i)
  \/ \E i \in 1..MaxCalls : unlockExec(i)
  \/ \E i \in 1..MaxCalls : asyncEmit(i)
  \/ Tick

SpecApart == InitMixed /\ [][NextApart]_vars

\* ------------------------------------------------------------- properties
\* The step in which the store executes call i's commands.
Commit(i, op) ==
  /\ i \in CallIds
  /\ calls[i].op = op
  /\ calls[i].pc = "sent"
  /\ calls'[i].pc # "sent"

\* The step in which call i's asyncEmit timer fires.
Emitted(i) ==
  /\ i \in CallIds
  /\ calls[i].pc = "emit"
  /\ calls'[i].pc = "done"

LockEvent(i) == <<"lock", calls[i].resource, calls[i].locker>>
UnlockEvent(i) == <<"unlock", calls[i].resource>>

\* C1: a lock without force on a resource whose key exists returns false,
\* leaves the stored locker as it was (whoever asks, the holder included) and
\* raises nothing; every lock event belongs to a lock call that returned true.
C1_HeldLockIsRefused ==
  [][/\ \A i \in 1..MaxCalls :
          (Commit(i, "lock") /\ ~calls[i].force /\ db[KeyOf(i)] # Null)
            => /\ calls'[i].result = FALSE
               /\ calls'[i].pc = "done"
               /\ db'[KeyOf(i)] = db[KeyOf(i)]
               /\ events' = events
     /\ \A i \in 1..MaxCalls :
          (i \in CallIds /\ calls[i].pc = "done") => calls'[i] = calls[i]
     /\ \A i \in 1..MaxCalls :
          (Emitted(i) /\ calls[i].op = "lock") => calls[i].result = TRUE]_vars

\* C1 witness: b's lock was refused while a holds the resource, and a's own
\* second lock was refused too.
C1_Witness ==
  \E i, j, k \in CallIds :
    /\ calls[i].op = "lock" /\ calls[i].pc = "done" /\ calls[i].result = TRUE
    /\ calls[i].locker = "a"
    /\ calls[j].op = "lock" /\ calls[j].pc = "done" /\ calls[j].result = FALSE
    /\ calls[j].locker = "b" /\ ~calls[j].force
    /\ k # i
    /\ calls[k].op = "lock" /\ calls[k].pc = "done" /\ calls[k].result = FALSE
    /\ calls[k].locker = "a" /\ ~calls[k].force
    /\ db[KeyOf(i)] = "a"

\* C3: a forced lock on a held resource returns true, stores its locker,
\* keeps the key in the registry, and its lock event is added to the events
\* raised before.
C3_ForcedLockTakesOver ==
  [][/\ \A i \in 1..MaxCalls :
          (Commit(i, "lock") /\ calls[i].force /\ db[KeyOf(i)] # Null)
            => /\ calls'[i].result = TRUE
               /\ calls'[i].pc = "emit"
               /\ db'[KeyOf(i)] = calls[i].locker
               /\ KeyOf(i) \in currentLocks'
     /\ \A i \in 1..MaxCalls :
          (Emitted(i) /\ calls[i].op = "lock")
            => events' = events (+) SetToBag({LockEvent(i)})]_vars

\* C3 witness: b forced the lock a held, and both lock events were raised.
C3_Witness ==
  \E i, j \in CallIds :
    /\ i < j
    /\ calls[i].op = "lock" /\ calls[i].locker = "a" /\ calls[i].pc = "done"
    /\ calls[i].result = TRUE
    /\ calls[j].op = "lock" /\ calls[j].locker = "b" /\ calls[j].pc = "done"
    /\ calls[j].force /\ calls[j].result = TRUE
    /\ lastLock[KeyOf(j)] = j
    /\ db[KeyOf(j)] = "b"
    /\ KeyOf(j) \in currentLocks
    /\ CopiesIn(LockEvent(i), events) >= 1
    /\ CopiesIn(LockEvent(j), events) >= 1

\* C4: a lock returns false exactly when it is not forced and the key exists
\* when its transaction runs; when it returns true the key holds its locker.
C4_LockResult ==
  [][\A i \in 1..MaxCalls :
        Commit(i, "lock")
          => /\ calls'[i].result = FALSE <=> (~calls[i].force /\ db[KeyOf(i)] # Null)
             /\ calls'[i].result = TRUE => db'[KeyOf(i)] = calls[i].locker
             /\ calls'[i].result \in BOOLEAN]_vars

\* C4 witness: one lock returned true on an absent key, one forced lock
\* returned true on a held key, and one returned false.
C4_Witness ==
  \E i, j, k \in CallIds :
    /\ calls[i].op = "lock" /\ ~calls[i].force /\ calls[i].result = TRUE
    /\ calls[j].op = "lock" /\ calls[j].force /\ calls[j].result = TRUE
    /\ calls[k].op = "lock" /\ calls[k].pc = "done" /\ calls[k].result = FALSE
    /\ i < j

\* The locker of the last lock call that returned true for key k.
LastLocker(k) == calls[lastLock[k]].locker

\* C5: while a key exists it holds the locker of the last lock that returned
\* true; getLocker returns that locker, or null when the key is absent, and
\* changes nothing in the store.
C5_GetLocker ==
  /\ [](\A k \in LockKeys : db[k] # Null => (lastLock[k] # 0 /\ db[k] = LastLocker(k)))
  /\ [][\A i \in 1..MaxCalls :
          Commit(i, "getLocker")
            => /\ calls'[i].pc = "done"
               /\ calls'[i].result =
                    IF db[KeyOf(i)] # Null THEN LastLocker(KeyOf(i)) ELSE Null
               /\ UNCHANGED storeVars]_vars

\* C5 witness: getLocker returned the locker of the lock before it, and
\* another getLocker returned null.
C5_Witness ==
  \E i, j, k \in CallIds :
    /\ calls[i].op = "lock" /\ calls[i].result = TRUE /\ calls[i].locker = "b"
    /\ j > i
    /\ calls[j].op = "getLocker" /\ calls[j].pc = "done" /\ calls[j].result = "b"
    /\ calls[k].op = "getLocker" /\ calls[k].pc = "done" /\ calls[k].result = Null

\* The unlock calls on resource r that returned true.
Unlocked(r) ==
  {i \in CallIds : /\ calls[i].op = "unlock" /\ calls[i].resource = r
                   /\ calls[i].pc = "done" /\ calls[i].result = TRUE}

\* C7: unlock returns true exactly when its transaction deleted the key; the
\* unlock events raised for a resource are as many as the unlock calls on it
\* that returned true, one for each.
C7_UnlockResult ==
  /\ [](\A r \in Resources :
          CopiesIn(<<"unlock", r>>, events) = Cardinality(Unlocked(r)))
  /\ [][\A i \in 1..MaxCalls :
          Commit(i, "unlock")
            => /\ calls'[i].result = (db[KeyOf(i)] # Null)
               /\ calls'[i].pc = IF db[KeyOf(i)] # Null THEN "emit" ELSE "done"]_vars

\* C7 witness: an unlock of a held resource returned true with its event, and
\* a later unlock of the same resource returned false.
C7_Witness ==
  \E i, j \in CallIds :
    /\ i < j
    /\ calls[i].op = "unlock" /\ calls[i].pc = "done" /\ calls[i].result = TRUE
    /\ calls[j].op = "unlock" /\ calls[j].pc = "done" /\ calls[j].result = FALSE
    /\ calls[j].resource = calls[i].resource
    /\ CopiesIn(UnlockEvent(i), events) = 1
\* The lock calls the store has executed, and those among them that returned true.
Executed == {i \in CallIds : calls[i].op = "lock" /\ calls[i].pc \in {"emit", "done"}}
Winners == {i \in Executed : calls[i].result = TRUE}

\* C2: of the unforced lock calls racing for an absent key, exactly one
\* returns true, the one the store executed first, and the key holds its
\* locker; every other call returns false.
C2_OneWinner ==
  /\ [](Executed # {} =>
          /\ Cardinality(Winners) = 1
          /\ \A i \in Winners : db[KeyOf(i)] = calls[i].locker
          /\ \A i \in Executed \ Winners : calls[i].result = FALSE)
  /\ [][\A i \in 1..MaxCalls :
          Commit(i, "lock") => (calls'[i].result = TRUE <=> Executed = {})]_vars

\* C2 witness: three calls of two clients were executed and the winner is not
\* the call issued first.
C2_Witness ==
  /\ Cardinality(Executed) >= 3
  /\ \E i, j \in Executed :
       /\ i < j
       /\ calls[i].client # calls[j].client
       /\ calls[i].locker # calls[j].locker
       /\ calls[i].pc = "done" /\ calls[i].result = FALSE
       /\ calls[j].pc = "done" /\ calls[j].result = TRUE
       /\ db[KeyOf(j)] = calls[j].locker

\* C6: a lock call without its resource or without its locker returns true
\* at once and leaves no key, no registry member and no lock event.
C6_MissingArgumentIsNoop ==
  /\ \A i \in CallIds :
       (calls[i].op = "lock" /\ (Falsy(calls[i].resource) \/ Falsy(calls[i].locker)))
         => /\ calls[i].pc = "done"
            /\ calls[i].result = TRUE
  /\ db[format(Prefix, Undefined)] = Null
  /\ format(Prefix, Undefined) \notin currentLocks
  /\ \A l \in Lockers : CopiesIn(<<"lock", Undefined, l>>, events) = 0

\* C8: an unlock removes the key and its registry member in one step, so a
\* key that exists is always registered and a registered key is absent from
\* the store only when its expiry lapsed.
C8_UnlockIsAtomic ==
  /\ [](\A k \in LockKeys :
          /\ db[k] # Null => k \in currentLocks
          /\ (k \in currentLocks /\ db[k] = Null) => life[k] = "lapsed")
  /\ [][\A i \in 1..MaxCalls :
          Commit(i, "unlock")
            => /\ db'[KeyOf(i)] = Null
               /\ KeyOf(i) \notin currentLocks']_vars

\* C8 witness: an unlock returned true, the key is gone from the store and
\* from the registry, and a later getLocker returned null.
C8_Witness ==
  \E i, j \in CallIds :
    /\ i < j
    /\ calls[i].op = "unlock" /\ calls[i].pc = "done" /\ calls[i].result = TRUE
    /\ calls[j].op = "getLocker" /\ calls[j].pc = "done" /\ calls[j].result = Null
    /\ db[KeyOf(i)] = Null
    /\ KeyOf(i) \notin currentLocks

ExpireCount(k) == CopiesIn(<<"expire", parse(Prefix, k)>>, events)

\* C9: once an unlock released the lock on a resource, and no earlier lock
\* on it lapsed unreported, no expire event is raised for the resource.
C9_NoExpireAfterUnlock ==
  [][\A k \in LockKeys :
        (life[k] = "unlocked" /\ ~owed[k]) => ExpireCount(k)' = ExpireCount(k)]_vars

\* No call is in flight and none can follow.
NoMoreCalls ==
  /\ Len(calls) = MaxCalls
  /\ \A i \in CallIds : calls[i].pc = "done"

\* C10: with a worker running, a lock that lapsed and is followed by no
\* other call is eventually reported by an expire event.
C10_LapsedLockIsReported ==
  \A k \in LockKeys : [](owed[k] /\ NoMoreCalls => <>(~owed[k]))

\* C11: with several workers on one store, a lock that lapsed is reported by
\* one sweep only: the cluster never raises a second expire event for it.
C11_OneExpirePerLapse == \A k \in LockKeys : ExpireCount(k) <= 1

\* C12: refresh by a client without ttl returns true at once and sends the
\* store nothing.  With a ttl, the store's PEXPIRE sets the remaining life of
\* r's key to the full ttl and the call returns true when the key exists;
\* when it does not, the call returns false and the store is left as it was,
\* the key still absent.
C12_RefreshResult ==
  [][\A i \in 1..MaxCalls :
       /\ (Len(calls') = i /\ Len(calls) = i - 1 /\ calls'[i].op = "refresh"
              /\ ttl[calls'[i].client] = NoTtl /\ ~closing[calls'[i].client])
            => /\ calls'[i].pc = "done"
               /\ calls'[i].result = TRUE
               /\ storeVars' = storeVars
       /\ Commit(i, "refresh")
            => /\ ttl[calls[i].client] # NoTtl
               /\ calls'[i].pc = "done"
               /\ calls'[i].result = (db[KeyOf(i)] # Null)
               /\ db' = db
               /\ currentLocks' = currentLocks
               /\ db[KeyOf(i)] # Null
                    => pttl' = [pttl EXCEPT ![KeyOf(i)] = ttl[calls[i].client]]
               /\ db[KeyOf(i)] = Null => pttl' = pttl
  ]_vars

\* A refresh that returned true, and a later one that found the key lapsed
\* and returned false.
C12_Witness ==
  \E i, j \in CallIds :
    /\ i < j
    /\ calls[i].op = "refresh" /\ calls[i].pc = "done" /\ calls[i].result = TRUE
    /\ ttl[calls[i].client] # NoTtl
    /\ calls[j].op = "refresh" /\ calls[j].pc = "done" /\ calls[j].result = FALSE
    /\ db[KeyOf(j)] = Null

\* C13: a lock or refresh that succeeded keeps the key for a full ttl: the
\* store does not let the key lapse, and no expire event for the resource is
\* raised, until a full ttl has elapsed since the last successful lock or
\* refresh of it.
C13_ExpireOnlyAfterFullTtl ==
  [][\A k \in LockKeys :
       /\ (db[k] # Null /\ db'[k] = Null /\ life'[k] = "lapsed") => age'[k] = TTL
       /\ ExpireCount(k)' > ExpireCount(k) => age[k] = TTL
  ]_vars

\* The step in which a call of operation op is issued.
Issued(op) ==
  /\ Len(calls') = Len(calls) + 1
  /\ calls'[Len(calls')].op = op

\* C14: refresh leaves the registry's members and every stored locker as
\* they are, for every resource; the only thing of the store it may change
\* is the remaining life of r's own key.
C14_RefreshFrame ==
  [][/\ Issued("refresh") => storeVars' = storeVars
     /\ \A i \in 1..MaxCalls :
          Commit(i, "refresh")
            => /\ currentLocks' = currentLocks
               /\ db' = db
               /\ \A k \in Keys \ {KeyOf(i)} : pttl'[k] = pttl[k]
  ]_vars

\* A refresh reset the life of one held lock while the other resource is
\* held by another locker.
C14_Witness ==
  \E i \in CallIds :
    /\ calls[i].op = "refresh" /\ calls[i].pc = "done" /\ calls[i].result = TRUE
    /\ pttl[KeyOf(i)] = TTL
    /\ \E k \in LockKeys \ {KeyOf(i)} : db[k] # Null /\ db[k] # db[KeyOf(i)]
    /\ Cardinality(currentLocks) = 2

\* C15: a lock, refresh, unlock or getLocker issued once the client's
\* closing flag is set is rejected with the error "Locky is closing": the
\* call sends the store nothing, and nothing is executed for it later.
C15_ClosingRejects ==
  [][/\ \A op \in {"lock", "refresh", "unlock", "getLocker"} :
          (Issued(op) /\ closing[calls'[Len(calls')].client])
            => /\ calls'[Len(calls')].pc = "rejected"
               /\ storeVars' = storeVars
               /\ events' = events
     /\ \A i \in CallIds : calls[i].pc = "rejected" => calls'[i] = calls[i]
  ]_vars

\* While close still awaits a call admitted before it, two later calls of
\* different operations have been rejected.
C15_Witness ==
  \E i, j, k \in CallIds :
    /\ calls[i].pc = "sent" /\ i \in closeWait[calls[i].client]
    /\ calls[j].pc = "rejected" /\ calls[k].pc = "rejected"
    /\ calls[j].op = "lock" /\ calls[k].op = "getLocker"

\* C16: once close has released a client's connections, none of its
\* operations is still pending: every call and the worker's cycle admitted
\* before close began settled first, so no admitted operation meets a
\* released connection.
C16_ReleaseAfterSettled ==
  \A c \in Clients : released[c] # {} => pendingOperations(c) = {}

\* Close began while a call and the worker's cycle were pending, and has
\* released both connections.
C16_Witness ==
  \E c \in Clients :
    /\ released[c] = {"redis", "expirationWorker.redis"}
    /\ 0 \in closeWait[c]
    /\ \E i \in CallIds : i \in closeWait[c] /\ calls[i].pc = "done"

\* C17: after close has completed, the worker's timeout is not pending and
\* no cycle of it runs, however close interleaves with a running cycle or
\* with a startExpirateWorker that is still creating its connection.
C17_NoTimerAfterClose ==
  \A c \in Clients : released[c] # {} => (wpc[c] # "timer" /\ ~cycleRunning(c))

\* C18: startExpirateWorker of a client without ttl is refused with an error
\* at once and starts nothing: the store and the events are as before, and
\* its worker never creates a connection, sets a timeout, writes the token
\* or sweeps.  The keys such a client locks have no expiry.
C18_NoTtlNoWorker ==
  [][\A c \in Clients :
       ttl[c] = NoTtl
         => /\ wpc'[c] \in {"off", "refused"}
            /\ wpc'[c] # wpc[c]
                 => (wpc'[c] = "refused" /\ storeVars' = storeVars /\ events' = events)
            /\ \A i \in 1..MaxCalls :
                 (Commit(i, "lock") /\ calls[i].client = c)
                   => pttl'[KeyOf(i)] = -1
            /\ ExpireCount(format(Prefix, "r2"))' = 0
  ]_vars

\* The client without ttl was refused its worker; the lock it took a full
\* ttl ago is still there, without expiry, while the other client's worker
\* holds the token.
C18_Witness ==
  /\ wpc["c2"] = "refused"
  /\ db[format(Prefix, "r2")] = "b"
  /\ pttl[format(Prefix, "r2")] = -1
  /\ age[format(Prefix, "r2")] = TTL
  /\ db[workerKey] = "OK"

\* C19: a lock that succeeds leaves the key with the client's configured ttl
\* as its remaining life, and with no expiry at all when the client has no
\* ttl, whatever expiry the key had before.
C19_LockExpiry ==
  [][\A i \in 1..MaxCalls :
       (Commit(i, "lock") /\ calls'[i].result)
         => pttl'[KeyOf(i)] =
              IF ttl[calls[i].client] # NoTtl THEN ttl[calls[i].client] ELSE -1
  ]_vars

\* A client without ttl took over, by force, a lock that a client with ttl
\* had taken: the key has lost its expiry.
C19_Witness ==
  \E i, j \in CallIds :
    /\ i < j
    /\ calls[i].op = "lock" /\ calls[i].pc = "done" /\ calls[i].result
    /\ ttl[calls[i].client] # NoTtl
    /\ calls[j].op = "lock" /\ calls[j].pc = "done" /\ calls[j].result
    /\ calls[j].force /\ ttl[calls[j].client] = NoTtl
    /\ lastLock[KeyOf(j)] = j
    /\ KeyOf(i) = KeyOf(j)
    /\ pttl[KeyOf(j)] = -1

\* The lock calls on resource r under locker l that have returned true.
LocksReturnedTrue(r, l) ==
  {i \in CallIds : /\ calls[i].op = "lock" /\ calls[i].pc = "done"
                    /\ calls[i].result
                    /\ calls[i].resource = r /\ calls[i].locker = l}

\* C20: every successful lock raises one lock(resource, locker) event and a
\* lock that returns false raises none: the lock events raised are, one for
\* one, the locks that have returned true.  The event is not raised in the
\* step that commits the transaction but by asyncEmit's timer afterwards,
\* and it is there when the call returns.
C20_OneLockEvent ==
  [][/\ \A r \in Resources, l \in Lockers :
          CopiesIn(<<"lock", r, l>>, events') = Cardinality(LocksReturnedTrue(r, l)')
     /\ \A i \in 1..MaxCalls :
          Commit(i, "lock")
            => /\ events' = events
               /\ calls'[i].pc = IF calls'[i].result THEN "emit" ELSE "done"
  ]_vars

\* One lock returned true with its one event raised, and a lock by the
\* other client returned false with no event.
C20_Witness ==
  \E i, j \in CallIds :
    /\ calls[i].op = "lock" /\ calls[i].pc = "done" /\ calls[i].result
    /\ CopiesIn(LockEvent(i), events) = 1
    /\ calls[j].op = "lock" /\ calls[j].pc = "done" /\ ~calls[j].result
    /\ CopiesIn(LockEvent(j), events) = 0

\* C21: each of the four operations is idempotent on the store: right after
\* the store executed a call, executing the same call once more would leave
\* every locker value, every expiry and the registry as they are.
C21_Idempotent ==
  [][\A i \in 1..MaxCalls :
       /\ Commit(i, "lock")
            => lockTrx(Store', KeyOf(i), calls[i].locker, calls[i].force,
                       ttl[calls[i].client]) = Store'
       /\ Commit(i, "refresh")
            => pExpire(Store', KeyOf(i), ttl[calls[i].client]) = Store'
       /\ Commit(i, "unlock") => unlockTrx(Store', KeyOf(i)) = Store'
       /\ Commit(i, "getLocker") => Store' = Store
  ]_vars

\* The same lock was issued twice and executed twice: it returned true, then
\* false, and the key is held with its full life.
C21_Witness ==
  \E i, j \in CallIds :
    /\ i < j
    /\ calls[i].op = "lock" /\ calls[j].op = "lock"
    /\ calls[i].pc = "done" /\ calls[j].pc = "done"
    /\ calls[i].client = calls[j].client
    /\ ~calls[i].force /\ ~calls[j].force
    /\ calls[i].result /\ ~calls[j].result
    /\ db[KeyOf(j)] = calls[j].locker
    /\ pttl[KeyOf(j)] = TTL

\* C22: parsing the key that format produced for an identifier gives the
\* identifier back, for every non-empty identifier, also one that contains
\* the separator or the namespace itself.
C22_RoundTrip ==
  \A i \in CallIds : calls[i].pc = "parsed" => calls[i].result = calls[i].resource

\* An identifier that is itself a whole key went through format and parse.
C22_Witness ==
  \E i \in CallIds :
    /\ calls[i].pc = "parsed"
    /\ calls[i].op = "format"
    /\ calls[i].resource = "locky:lock:"
    /\ calls[i].result = "locky:lock:"

\* The unlock and expire events raised so far for the resource of key k.
Reports(k) ==
  ExpireCount(k) + CopiesIn(<<"unlock", parse(Prefix, k)>>, events)

\* C23: a lock that ended, by unlock or by the lapse of its key, is reported
\* once: an unlock or an expire event for its resource follows, and never a
\* second one.
C23_EndedLockReportedOnce ==
  \A k \in LockKeys :
    /\ [](Reports(k) <= 1)
    /\ (life[k] \in {"lapsed", "unlocked"}) ~> (Reports(k) = 1)

\* The worker of c won the token and has not finished expireKeys.
Sweeping(c) == wpc[c] \in {"smembers", "pttl", "watch", "exec", "emit"}

\* C24: at every instant at most one worker of the cluster is sweeping.
C24_OneSweeper == Cardinality({c \in Clients : Sweeping(c)}) <= 1

\* C25: when a key the sweep's TTL scan found absent has been locked again by
\* the time the sweep's SREM transaction executes, the transaction is
\* aborted: the registry is left as it is, and the cycle ends without an
\* expire event and without an error event.
C25_RelockAbortsSweep ==
  [][\A c \in Clients :
       (wpc[c] = "exec" /\ wpc'[c] # "exec" /\ \E k \in wexp[c] : db[k] # Null)
         => /\ currentLocks' = currentLocks
            /\ wpc'[c] = "del"
            /\ events' = events
  ]_vars

\* C26: every lock key that exists in the store is a member of the registry.
C26_HeldLockIsRegistered ==
  \A k \in LockKeys : db[k] # Null => k \in currentLocks

\* C27: a member leaves the registry only in the step of an unlock of its
\* resource, or in the SREM transaction of a sweep that took it for expired,
\* and a sweep takes for expired only keys it saw absent from the store.
\* Refresh, getLocker, a lock that fails and the election remove nothing.
C27_RegistryRemovals ==
  [][/\ \A k \in currentLocks \ currentLocks' :
          \/ \E i \in CallIds : Commit(i, "unlock") /\ KeyOf(i) = k
          \/ \E c \in Clients : wpc[c] = "exec" /\ wpc'[c] = "emit" /\ k \in wexp[c]
     /\ \A c \in Clients :
          (wpc[c] = "pttl" /\ wpc'[c] # "pttl")
            => \A k \in wexp'[c] : db[k] = Null
  ]_vars

\* A lock that failed, a refresh and an election that was lost have all
\* happened, the key lapsed, and a sweep has removed it from the registry.
C27_Witness ==
  /\ currentLocks = {}
  /\ wpc["c2"] = "emit"
  /\ wexp["c2"] = {format(Prefix, "r1")}
  /\ \E i, j \in CallIds :
       /\ calls[i].op = "lock" /\ calls[i].pc = "done" /\ ~calls[i].result
       /\ calls[j].op = "refresh" /\ calls[j].pc = "done" /\ calls[j].result

\* C28: the keys a sweep raises expire for are the keys its SREM transaction
\* removed from the registry in the step it committed: every key of
\* keysToExpire was a member until then, and the events, one per key, are
\* raised in a later step.
C28_ExpireOnlyForRemoved ==
  [][\A c \in Clients :
       /\ (wpc[c] = "exec" /\ wpc'[c] = "emit")
            => /\ wexp[c] = currentLocks \ currentLocks'
               /\ events' = events
       /\ \A k \in LockKeys :
            (ExpireCount(k)' # ExpireCount(k) /\ wpc[c] # wpc'[c])
              => /\ wpc[c] = "emit" /\ k \in wexp[c]
                 /\ ExpireCount(k)' = ExpireCount(k) + 1
  ]_vars

\* The step in which a cycle of c's worker fails with a store error.
CycleFails(c) ==
  /\ cycleRunning(c)
  /\ CopiesIn(StoreError, events') = CopiesIn(StoreError, events) + 1

\* C29: when a command of a cycle fails, the error is raised as an error
\* event, the next cycle is scheduled, and the token the worker won is no
\* longer in the store.
C29_ErrorReleasesToken ==
  [][\A c \in Clients :
       CycleFails(c)
         => /\ wpc'[c] = "timer"
            /\ (wpc[c] # "set") => db'[workerKey] = Null
  ]_vars

\* C30: the polling loop does not halt: every cycle that runs, whether it
\* wins or loses the election, finds nothing to expire or fails with a store
\* error, is followed by a pending timeout, and every pending timeout is
\* followed by a cycle.
C30_LoopNeverHalts ==
  \A c \in Clients :
    /\ cycleRunning(c) ~> (wpc[c] = "timer")
    /\ (wpc[c] = "timer") ~> cycleRunning(c)

\* The next timeout is pending after cycles that failed with a store error
\* and a cycle that raised an expire event.
C30_Witness ==
  /\ wpc["c1"] = "timer"
  /\ CopiesIn(StoreError, events) = MaxErrors
  /\ ExpireCount(format(Prefix, "r1")) = 1

\* C31: the token belongs to the client whose SET created it, and no worker
\* touches the token of another client: an election that finds a token
\* leaves its value and its remaining life as they are, and the DEL at the
\* end of a sweep removes no token but the sweeper's own.
C31_TokenOwnedByCreator ==
  [][\A c \in Clients :
       /\ (wpc[c] = "set" /\ wpc'[c] # "set" /\ db[workerKey] # Null)
            => /\ db'[workerKey] = db[workerKey]
               /\ pttl'[workerKey] = pttl[workerKey]
               /\ leader' = leader
       /\ (wpc[c] = "del" /\ wpc'[c] # "del" /\ db[workerKey] # Null)
            => leader = c
  ]_vars

\* C32: a worker whose token has lapsed while it was sweeping aborts the
\* cycle: its SREM transaction removes nothing from the registry and the
\* cycle goes on to its end without an expire event.
C32_LostLeaseAbortsSweep ==
  [][\A c \in Clients :
       (wpc[c] = "exec" /\ wpc'[c] # "exec" /\ leader # c)
         => /\ currentLocks' = currentLocks
            /\ wpc'[c] = "del"
            /\ events' = events
  ]_vars

\* The worker of c has crashed.
Crashed(c) == wpc[c] = "crashed"

\* C33: when the worker that holds the token crashes without deleting it,
\* the token lapses by itself, the other worker goes on to win an election
\* and sweep, and a lock that lapsed is eventually reported by an expire
\* event.
C33_CrashedLeaderIsReplaced ==
  /\ (Crashed("c1") /\ leader = "c1") ~> (db[workerKey] = Null \/ leader = "c2")
  /\ Crashed("c1") ~> Sweeping("c2")
  /\ \A k \in LockKeys : (Crashed("c1") /\ owed[k]) ~> ~owed[k]

\* The worker of c has won the election and its cycle has not ended.
Elected(c) == Sweeping(c) \/ wpc[c] = "del"

C35_LoserGoesToCooldown ==
  [][\A c \in Clients :
       (wpc[c] = "set" /\ wpc'[c] # "set" /\ db[workerKey] # Null)
         => /\ wpc'[c] = "timer"
            /\ wkeys'[c] = {} /\ wexp'[c] = {}
            /\ UNCHANGED <<db, pttl, currentLocks, watched, events, leader>>
  ]_vars

\* Worker c2 stands at its timeout with nothing read, while c1 holds the
\* token and is about to remove the lapsed lock from the registry.
C35_Witness ==
  /\ wpc["c2"] = "timer"
  /\ wkeys["c2"] = {}
  /\ leader = "c1"
  /\ db[workerKey] = "OK"
  /\ wpc["c1"] = "exec"
  /\ events = SetToBag({<<"lock", "r1", "a">>})

\* The sweeps have caught up: no call is in flight, no cycle is running and
\* no member of the registry is left whose key is gone from the store.
CaughtUp ==
  /\ \A i \in CallIds : calls[i].pc \in {"done", "rejected"}
  /\ \A c \in Clients : ~cycleRunning(c)
  /\ \A k \in currentLocks : db[k] # Null

\* C36: whenever the sweeps have caught up, the members of the registry are
\* the keys of the resources that are locked, and the locker stored for each
\* of them, which getLocker returns, is the locker of the last lock that
\* returned true.
C36_RegistryMatchesLocks ==
  CaughtUp
    => /\ currentLocks = {k \in LockKeys : db[k] # Null}
       /\ \A k \in LockKeys : db[k] # Null => db[k] = LastLocker(k)

\* C37: a lock without force by a client with a ttl, on a key that exists,
\* returns false and leaves the stored locker as it was, and yet the key's
\* remaining life is the client's full ttl afterwards: PEXPIRE is part of
\* the transaction whatever SET NX replies.
C37_FailedLockResetsExpiry ==
  [][\A i \in 1..MaxCalls :
       (/\ Commit(i, "lock") /\ ~calls[i].force
        /\ db[KeyOf(i)] # Null
        /\ ttl[calls[i].client] # NoTtl)
         => /\ calls'[i].result = FALSE
            /\ db'[KeyOf(i)] = db[KeyOf(i)]
            /\ pttl'[KeyOf(i)] = ttl[calls[i].client]
  ]_vars

\* A tick after the lock on r1 succeeded, with no refresh since, a second
\* lock returned false and the key has its full life again.
C37_Witness ==
  \E i, j \in CallIds :
    /\ i < j
    /\ calls[i].op = "lock" /\ calls[i].pc = "done" /\ calls[i].result
    /\ calls[j].op = "lock" /\ calls[j].pc = "done" /\ ~calls[j].result
    /\ ~calls[j].force /\ ttl[calls[j].client] = TTL
    /\ KeyOf(j) = KeyOf(i)
    /\ db[KeyOf(j)] = calls[i].locker
    /\ age[KeyOf(j)] = 1
    /\ pttl[KeyOf(j)] = TTL

\* C38: however often startExpirateWorker is called on a client, also while
\* an earlier call is still creating its connection, the client has at most
\* one worker connection and at most one polling loop.
C38_OneLoopOneConnection ==
  \A c \in Clients : workerConnections(c) <= 1 /\ pollingLoops(c) <= 1

\* C39: the step in which the store executes a lock, a refresh or an unlock
\* of one resource leaves every other resource as it was: the locker stored
\* for it, the remaining life of its key and its membership of the registry.
C39_OtherResourcesUntouched ==
  [][\A i \in 1..MaxCalls : \A op \in {"lock", "refresh", "unlock"} :
       Commit(i, op)
         => \A r \in Resources \ {calls[i].resource} :
              LET k == format(Prefix, r)
              IN  /\ db'[k] = db[k]
                  /\ pttl'[k] = pttl[k]
                  /\ (k \in currentLocks') = (k \in currentLocks)
  ]_vars

\* r2 is held and registered, with the life it had, after r1 was locked and
\* unlocked beside it.
C39_Witness ==
  \E i, j, u \in CallIds :
    /\ i < j /\ j < u
    /\ calls[i].op = "lock" /\ calls[i].resource = "r2" /\ calls[i].result
    /\ calls[j].op = "lock" /\ calls[j].resource = "r1" /\ calls[j].result
    /\ calls[u].op = "unlock" /\ calls[u].resource = "r1" /\ calls[u].result
    /\ calls[u].pc = "done"
    /\ db[format(Prefix, "r2")] = calls[i].locker
    /\ pttl[format(Prefix, "r2")] = TTL
    /\ currentLocks = {format(Prefix, "r2")}
    /\ db[format(Prefix, "r1")] = Null
====
